---- MODULE Spec2Model ----
(***************************************************************************)
(* A model of rustychain: Block (src/src/block.rs), Chain                  *)
(* (src/src/chain.rs), Message (src/src/message.rs), and the Node event    *)
(* loop with its nonce worker (src/src/node.rs).                           *)
(*                                                                         *)
(* A 32-byte array is modelled by the natural number it spells in          *)
(* big-endian order, so that the lexicographic order of two arrays is the  *)
(* order of the numbers and hex::encode is the fixed-width base-16         *)
(* numeral.  SHA-256 is modelled by an injective function of the four      *)
(* hashed fields (id, data, prev, nonce).                                  *)
(***************************************************************************)
EXTENDS Integers, Sequences, FiniteSets, TLC

(***************************************************************************)
(* Bounds of the model.                                                    *)
(***************************************************************************)
\* The longest chain (blocks plus queue) the model lets a node hold.
MaxBlocks == 2
\* The number of items the model lets wait in a worker channel.
ChanBound == 1

(***************************************************************************)
(* Values.                                                                 *)
(***************************************************************************)
Nodes == {"n1", "n2"}
Solo == "n1"
Peer(n) == IF n = "n1" THEN "n2" ELSE "n1"

\* Payloads (Block.data).
Data == {"a", "b"}
DataCode(d) == IF d = "a" THEN 0 ELSE 1

\* Nonces the worker's rand::random::<u64>() is let to draw.
Nonces == 0 .. 2

\* Block ids that occur.
Ids == 0 .. MaxBlocks

\* [0u8; 32]
ZeroHash == 0
\* The length of Block.hash in bytes.
HashLen == 32
\* The digits per byte in hex::encode.
HexPerByte == 2
\* The base of a hex digit.
HexBase == 16

\* The difficulty suffix "0" of the node, as its hex digits.
Difficult == <<0>>
\* The worker's initial suffix "zzzz": 'z' is no hex digit (35 is its value
\* as a base-36 digit).
Zzzz == <<35, 35, 35, 35>>

\* Option<usize>
None == <<>>
Some(i) == <<i>>

Last(s) == s[Len(s)]
Front(s) == SubSeq(s, 1, Len(s) - 1)
SetMin(S) == CHOOSE x \in S : \A y \in S : x <= y

(***************************************************************************)
(* Block                                                                   *)
(***************************************************************************)
Block_new(id, data) ==
    [id |-> id, data |-> data, hash |-> ZeroHash, prev |-> ZeroHash, nonce |-> 0]

\* The hashed fields as one number: injective on (prev, id, data).
HashCore(b) == (b.prev * Cardinality(Ids) + b.id) * Cardinality(Data) + DataCode(b.data)

\* A hash over id, data and prev that leaves the nonce out.
calc_hash_without_nonce(b) == HexBase * (HashCore(b) * 2 + 1)

\* SHA-256 of id, data, prev and nonce.  Injective and never the zero array.
\* Of the three nonces, 0 and 1 give two hashes that end with "0" and 2
\* gives one that does not.
calc_hash(b) ==
    HexBase * (HashCore(b) * 2 + (b.nonce % 2) + 1) + (b.nonce \div 2)

update_hash(b) == [b EXCEPT !.hash = calc_hash(b)]

validate_hash(b) == b.hash = calc_hash(b)

\* The n-digit base-16 numeral of h, most significant digit first.  The
\* numbers of the model are below 16^7, so the digits before the last seven
\* are 0.
HexDigits(h, n) ==
    [i \in 1 .. n |-> IF n - i >= 7 THEN 0 ELSE (h \div HexBase ^ (n - i)) % HexBase]

\* hex::encode(self.hash)
string_hash(b) == HexDigits(b.hash, HexPerByte * HashLen)

\* str::ends_with
ends_with(s, suffix) ==
    /\ Len(suffix) <= Len(s)
    /\ SubSeq(s, Len(s) - Len(suffix) + 1, Len(s)) = suffix

equals(a, b) ==
    /\ a.id = b.id
    /\ a.data = b.data
    /\ a.hash = b.hash
    /\ a.prev = b.prev
    /\ a.nonce = b.nonce

preequals(a, b) == a.id = b.id /\ a.data = b.data /\ a.prev = b.prev

\* [u8; 32] < [u8; 32]: lexicographic on the bytes, the order of the numbers.
hash_lt(x, y) == x < y

(***************************************************************************)
(* Chain                                                                   *)
(***************************************************************************)
Chain_new == [blocks |-> <<>>, status |-> TRUE, queue |-> <<>>]

\* A count of checked blocks that takes in the last block whatever status is.
CheckedLen_all(c) == Len(c.blocks)

\* The number of blocks have_errors checks.
CheckedLen(c) ==
    IF Len(c.blocks) = 0 THEN 0
    ELSE IF ~c.status THEN Len(c.blocks) - 1 ELSE Len(c.blocks)

\* Indices are those of the source: blocks.get(i) is c.blocks[i + 1].
FirstPassBad(c) ==
    {i \in 0 .. CheckedLen(c) - 1 :
        c.blocks[i + 1].id # i \/ ~validate_hash(c.blocks[i + 1])}

SecondPassBad(c) ==
    {i \in 1 .. CheckedLen(c) - 1 : c.blocks[i + 1].prev # c.blocks[i].hash}

have_errors(c) ==
    IF Len(c.blocks) = 0 THEN None
    ELSE IF FirstPassBad(c) # {} THEN Some(SetMin(FirstPassBad(c)))
    ELSE IF SecondPassBad(c) # {} THEN Some(SetMin(SecondPassBad(c)))
    ELSE None

\* try_add that leaves the promoted block's prev as it was queued.
try_add_keeps_prev(c) ==
    IF c.status /\ c.queue # <<>>
    THEN LET block == [Head(c.queue) EXCEPT !.id = Len(c.blocks)]
         IN  [chain |-> [c EXCEPT !.queue = Tail(c.queue),
                                  !.blocks = Append(c.blocks, block)],
              ret |-> TRUE]
    ELSE [chain |-> c, ret |-> FALSE]

\* try_add that does not look at status.
try_add_any_status(c) ==
    IF c.queue # <<>>
    THEN LET prev == IF c.blocks = <<>> THEN ZeroHash ELSE Last(c.blocks).hash
             block == [Head(c.queue) EXCEPT !.prev = prev, !.id = Len(c.blocks)]
         IN  [chain |-> [c EXCEPT !.queue = Tail(c.queue),
                                  !.blocks = Append(c.blocks, block)],
              ret |-> TRUE]
    ELSE [chain |-> c, ret |-> FALSE]

\* try_add: the chain afterwards and the value returned.
try_add(c) ==
    IF c.status /\ c.queue # <<>>
    THEN LET prev == IF c.blocks = <<>> THEN ZeroHash ELSE Last(c.blocks).hash
             block == [Head(c.queue) EXCEPT !.prev = prev, !.id = Len(c.blocks)]
         IN  [chain |-> [c EXCEPT !.queue = Tail(c.queue),
                                  !.blocks = Append(c.blocks, block)],
              ret |-> TRUE]
    ELSE [chain |-> c, ret |-> FALSE]

\* add_queue that numbers the block by the length of the queue alone.
add_queue_counts_queue(c, block) ==
    [c EXCEPT !.queue = Append(c.queue, [block EXCEPT !.id = Len(c.queue)])]

\* add_queue that puts the block at the front of the queue.
add_queue_front(c, block) ==
    [c EXCEPT !.queue =
        <<[block EXCEPT !.id = Len(c.blocks) + Len(c.queue)]>> \o c.queue]

add_queue(c, block) ==
    [c EXCEPT !.queue =
        Append(c.queue, [block EXCEPT !.id = Len(c.blocks) + Len(c.queue)])]

(***************************************************************************)
(* Message                                                                 *)
(***************************************************************************)
MinedBlock(block) == [type |-> "MinedBlock", block |-> block]
NewBlock(block) == [type |-> "NewBlock", block |-> block]
ChainRequest == [type |-> "ChainRequest"]
ChainResponce(chain) == [type |-> "ChainResponce", chain |-> chain]

\* What the worker sends back: ([u8; 32], u64).
NonceResult(hash, nonce) == [type |-> "Nonce", hash |-> hash, nonce |-> nonce]
NoEvent == [type |-> "none"]

(***************************************************************************)
(* Node::run: the handlers, as the chain they leave, the messages they     *)
(* send on self.tx, and how the loop body ends ("promote": falls through   *)
(* to the promotion step, "continue": back to the head of the loop,        *)
(* "panic": an unwrap of None).                                            *)
(***************************************************************************)
Handled(c, out, next) == [chain |-> c, out |-> out, next |-> next]

\* A NewBlock branch that goes back to the select past the promotion step.
on_NewBlock_continues(c, block) == Handled(add_queue(c, block), <<>>, "continue")

on_NewBlock(c, block) == Handled(add_queue(c, block), <<>>, "promote")

\* A ChainRequest branch that answers with the sealed blocks only.
on_ChainRequest_sealed_only(c) ==
    Handled(c, <<ChainResponce([c EXCEPT !.blocks = SubSeq(c.blocks, 1, CheckedLen(c)),
                                         !.status = TRUE])>>, "promote")

on_ChainRequest(c) == Handled(c, <<ChainResponce(c)>>, "promote")

\* A ChainResponce branch that takes the peer's blocks and status and keeps
\* the local queue.
on_ChainResponce_keeps_queue(c, chain) ==
    IF have_errors(chain) = None /\ Len(chain.blocks) > Len(c.blocks)
    THEN Handled([chain EXCEPT !.queue = c.queue], <<>>, "promote")
    ELSE Handled(c, <<>>, "promote")

\* A ChainResponce branch that also takes a chain of the local length.
on_ChainResponce_takes_equal(c, chain) ==
    IF have_errors(chain) = None /\ Len(chain.blocks) >= Len(c.blocks)
    THEN Handled(chain, <<>>, "promote")
    ELSE Handled(c, <<>>, "promote")

on_ChainResponce(c, chain) ==
    IF have_errors(chain) = None /\ Len(chain.blocks) > Len(c.blocks)
    THEN Handled(chain, <<>>, "promote")
    ELSE Handled(c, <<>>, "promote")

\* A gate that rejects a block with a wrong hash or a hash with the suffix.
gate_rejects_either(block, difficult) ==
    block.hash # calc_hash(block) \/ ends_with(string_hash(block), difficult)

\* The gate of the MinedBlock branch: TRUE when the block is rejected.
gate_rejects(block, difficult) ==
    block.hash # calc_hash(block) /\ ends_with(string_hash(block), difficult)

\* A repair loop that pushes the blocks it pops at the back of the queue.
RECURSIVE pop_to_queue_back(_, _)
pop_to_queue_back(c, k) ==
    IF k = 0 THEN c
    ELSE pop_to_queue_back([c EXCEPT !.blocks = Front(c.blocks),
                                     !.queue = Append(c.queue, Last(c.blocks))], k - 1)

\* for _ in id..len { pop(); push_front() }, k iterations.
RECURSIVE pop_to_queue(_, _)
pop_to_queue(c, k) ==
    IF k = 0 THEN c
    ELSE pop_to_queue([c EXCEPT !.blocks = Front(c.blocks),
                                !.queue = <<Last(c.blocks)>> \o c.queue], k - 1)

\* A tail handling that writes the hash and nonce taken into the block at
\* the index the MinedBlock's id names, not into the last block.
resolve_tail_by_id(c, block) ==
    LET last == Last(c.blocks)
        take == block.id = last.id /\ ~c.status /\ preequals(block, last)
    IN  IF take /\ block.id + 1 <= Len(c.blocks)
        THEN [c EXCEPT !.blocks[block.id + 1] =
                          [@ EXCEPT !.hash = block.hash, !.nonce = block.nonce],
                       !.status = TRUE]
        ELSE c

\* The tail after the two replacements of the MinedBlock branch, and the
\* status.
resolve_tail(c, block) ==
    LET last == Last(c.blocks)
        tie == block.id = last.id /\ c.status /\ preequals(block, last)
                 /\ hash_lt(block.hash, last.hash)
        last1 == IF tie THEN [last EXCEPT !.hash = block.hash, !.nonce = block.nonce]
                 ELSE last
        take == block.id = last1.id /\ ~c.status /\ preequals(block, last1)
        last2 == IF take THEN [last1 EXCEPT !.hash = block.hash, !.nonce = block.nonce]
                 ELSE last1
    IN  [c EXCEPT !.blocks = Append(Front(c.blocks), last2),
                  !.status = IF take THEN TRUE ELSE c.status]

\* A repair that pops every block, whatever index have_errors gave.
repair_pops_all(c) ==
    IF have_errors(c) # None
    THEN Handled(pop_to_queue(c, Len(c.blocks)), <<ChainRequest>>, "promote")
    ELSE Handled(c, <<>>, "promote")

\* The repair of the MinedBlock branch.
repair(c) ==
    IF have_errors(c) # None
    THEN Handled(pop_to_queue(c, Len(c.blocks) - have_errors(c)[1]),
                 <<ChainRequest>>, "promote")
    ELSE Handled(c, <<>>, "promote")

\* A MinedBlock branch that takes the block as the first of an empty chain.
on_MinedBlock_adopts_orphan(c, block, difficult) ==
    IF gate_rejects(block, difficult) THEN Handled(c, <<>>, "continue")
    ELSE IF c.blocks = <<>>
         THEN Handled([c EXCEPT !.blocks = <<block>>], <<ChainRequest>>, "promote")
    ELSE LET c2 == resolve_tail(c, block)
             behind == IF block.id > Last(c2.blocks).id THEN <<ChainRequest>> ELSE <<>>
             r == repair(c2)
         IN  Handled(r.chain, behind \o r.out, "promote")

on_MinedBlock(c, block, difficult) ==
    IF gate_rejects(block, difficult) THEN Handled(c, <<>>, "continue")
    ELSE IF c.blocks = <<>> THEN Handled(c, <<ChainRequest>>, "promote")
    ELSE LET c2 == resolve_tail(c, block)
             behind == IF block.id > Last(c2.blocks).id THEN <<ChainRequest>> ELSE <<>>
             r == repair(c2)
         IN  Handled(r.chain, behind \o r.out, "promote")

on_message(c, msg, difficult) ==
    CASE msg.type = "NewBlock" -> on_NewBlock(c, msg.block)
      [] msg.type = "ChainRequest" -> on_ChainRequest(c)
      [] msg.type = "ChainResponce" -> on_ChainResponce(c, msg.chain)
      [] msg.type = "MinedBlock" -> on_MinedBlock(c, msg.block, difficult)

\* A worker-result branch that sends the tail as it was before the commit.
on_nonce_sends_old_tail(c, hash, nonce) ==
    IF c.status THEN Handled(c, <<>>, "promote")
    ELSE IF c.blocks = <<>> THEN Handled(c, <<>>, "panic")
    ELSE LET cloned_block == [Last(c.blocks) EXCEPT !.hash = hash, !.nonce = nonce]
         IN  IF cloned_block.hash = calc_hash(cloned_block)
             THEN Handled([c EXCEPT !.blocks = Append(Front(c.blocks), cloned_block),
                                    !.status = TRUE],
                          <<MinedBlock(Last(c.blocks))>>, "promote")
             ELSE Handled(c, <<>>, "promote")

\* A worker-result branch that commits without recomputing the hash.
on_nonce_commits_unchecked(c, hash, nonce) ==
    IF c.status THEN Handled(c, <<>>, "promote")
    ELSE IF c.blocks = <<>> THEN Handled(c, <<>>, "panic")
    ELSE LET cloned_block == [Last(c.blocks) EXCEPT !.hash = hash, !.nonce = nonce]
         IN  Handled([c EXCEPT !.blocks = Append(Front(c.blocks), cloned_block),
                               !.status = TRUE],
                     <<MinedBlock(cloned_block)>>, "promote")

\* The branch of the worker's results.
on_nonce(c, hash, nonce) ==
    IF c.status THEN Handled(c, <<>>, "promote")
    ELSE IF c.blocks = <<>> THEN Handled(c, <<>>, "panic")
    ELSE LET cloned_block == [Last(c.blocks) EXCEPT !.hash = hash, !.nonce = nonce]
         IN  IF cloned_block.hash = calc_hash(cloned_block)
             THEN Handled([c EXCEPT !.blocks = Append(Front(c.blocks), cloned_block),
                                    !.status = TRUE],
                          <<MinedBlock(cloned_block)>>, "promote")
             ELSE Handled(c, <<>>, "promote")

\* The promotion step: the chain afterwards and the work items sent.
promotion(c, difficult) ==
    IF c.status
    THEN LET r == try_add(c)
             c2 == [r.chain EXCEPT !.status = ~r.ret]
         IN  IF ~c2.status
             THEN [chain |-> c2, work |-> << <<Last(c2.blocks), difficult>> >>]
             ELSE [chain |-> c2, work |-> <<>>]
    ELSE [chain |-> c, work |-> <<>>]

(***************************************************************************)
(* The state.  Every variable is a function of the node.                   *)
(***************************************************************************)
VARIABLES
    chain,      \* Node.chain
    pc,         \* where the node is in its loop: "select", "promote",
                \* "continue", "panic", or "returned" from run()
    ev,         \* the event the loop body is handling (message, or nonce)
    out,        \* what the loop body has sent on Node.tx
    work,       \* the channel tx_node -> rx of (Block, String)
    results,    \* the channel tx -> rx_node of ([u8; 32], u64)
    wflag,      \* nonce_worker: flag
    wblock,     \* nonce_worker: block
    wdiff,      \* nonce_worker: diff
    wpc,        \* nonce_worker: at its "select", or inside tx.send ("send")
    inbox,      \* the channel Node.rx, where a network feeds it
    emitted,    \* history: the MinedBlocks the node has sent, in order
    admitted,   \* history: the payloads of the NewBlocks handled, in order
    halt        \* cancellation: the signal waiting in Node.rx_cancel, the
                \* signal waiting in the worker's cancel_rx, and whether
                \* nonce_worker has returned

vars == <<chain, pc, ev, out, work, results, wflag, wblock, wdiff, wpc, inbox,
         emitted, admitted, halt>>
nodeVars == <<chain, pc, ev, out>>
workerVars == <<wflag, wblock, wdiff, wpc>>
history == <<emitted, admitted>>

Init ==
    /\ chain = [n \in Nodes |-> Chain_new]
    /\ pc = [n \in Nodes |-> "select"]
    /\ ev = [n \in Nodes |-> NoEvent]
    /\ out = [n \in Nodes |-> <<>>]
    /\ work = [n \in Nodes |-> <<>>]
    /\ results = [n \in Nodes |-> <<>>]
    /\ wflag = [n \in Nodes |-> FALSE]
    /\ wblock = [n \in Nodes |-> Block_new(0, "Dummy")]
    /\ wdiff = [n \in Nodes |-> Zzzz]
    /\ wpc = [n \in Nodes |-> "select"]
    /\ inbox = [n \in Nodes |-> <<>>]
    /\ halt = [n \in Nodes |-> [rx_cancel |-> FALSE, cancel_rx |-> FALSE, worker |-> FALSE]]
    /\ emitted = <<>>
    /\ admitted = <<>>

(***************************************************************************)
(* The node's steps.                                                       *)
(***************************************************************************)
\* msg = self.rx.recv(): the branch of the inbound messages.
Handle(n, msg) ==
    /\ pc[n] = "select"
    /\ LET h == on_message(chain[n], msg, Difficult)
       IN  /\ chain' = [chain EXCEPT ![n] = h.chain]
           /\ out' = [out EXCEPT ![n] = h.out]
           /\ pc' = [pc EXCEPT ![n] = h.next]
    /\ ev' = [ev EXCEPT ![n] = msg]
    /\ UNCHANGED <<work, results, workerVars>>

\* nonce = rx_node.recv(): the branch of the worker's results.
Nonce(n) ==
    /\ pc[n] = "select"
    /\ results[n] # <<>>
    /\ LET r == Head(results[n])
           h == on_nonce(chain[n], r[1], r[2])
       IN  /\ chain' = [chain EXCEPT ![n] = h.chain]
           /\ out' = [out EXCEPT ![n] = h.out]
           /\ pc' = [pc EXCEPT ![n] = h.next]
           /\ ev' = [ev EXCEPT ![n] = NonceResult(r[1], r[2])]
    /\ results' = [results EXCEPT ![n] = Tail(@)]
    /\ UNCHANGED <<work, workerVars>>

\* The promotion step at the end of the loop body; tx_node.send waits while
\* the channel is full.
Promote(n) ==
    /\ pc[n] = "promote"
    /\ LET p == promotion(chain[n], Difficult)
       IN  /\ Len(work[n]) + Len(p.work) <= ChanBound
           /\ chain' = [chain EXCEPT ![n] = p.chain]
           /\ work' = [work EXCEPT ![n] = @ \o p.work]
    /\ pc' = [pc EXCEPT ![n] = "select"]
    /\ ev' = [ev EXCEPT ![n] = NoEvent]
    /\ out' = [out EXCEPT ![n] = <<>>]
    /\ UNCHANGED <<results, workerVars>>

\* continue: back to the select, past the promotion step.
Continue(n) ==
    /\ pc[n] = "continue"
    /\ pc' = [pc EXCEPT ![n] = "select"]
    /\ ev' = [ev EXCEPT ![n] = NoEvent]
    /\ out' = [out EXCEPT ![n] = <<>>]
    /\ UNCHANGED <<chain, work, results, workerVars>>

(***************************************************************************)
(* nonce_worker.  The node and its worker are tasks of one cooperative     *)
(* runtime and share nothing but their two channels: the worker's steps    *)
(* are taken while the node waits, in its select or in tx_node.send on a   *)
(* full channel.                                                           *)
(***************************************************************************)
NodeWaits(n) ==
    \/ pc[n] = "select"
    \/ /\ pc[n] = "promote"
       /\ Len(work[n]) + Len(promotion(chain[n], Difficult).work) > ChanBound

\* m = rx.recv()
WorkerRecv(n) ==
    /\ NodeWaits(n)
    /\ wpc[n] = "select"
    /\ work[n] # <<>>
    /\ wblock' = [wblock EXCEPT ![n] = Head(work[n])[1]]
    /\ wdiff' = [wdiff EXCEPT ![n] = Head(work[n])[2]]
    /\ wflag' = [wflag EXCEPT ![n] = TRUE]
    /\ work' = [work EXCEPT ![n] = Tail(@)]
    /\ UNCHANGED <<nodeVars, results, wpc>>

\* A try that tests the suffix on the hash the block had before the try.
worker_try_tests_old_hash(block, diff, nonce) ==
    LET b == update_hash([block EXCEPT !.nonce = nonce])
    IN  [block |-> b, found |-> ends_with(string_hash(block), diff)]

\* One try of the worker with the nonce drawn: the block afterwards and
\* whether it is sent.
worker_try(block, diff, nonce) ==
    LET b == update_hash([block EXCEPT !.nonce = nonce])
    IN  [block |-> b, found |-> ends_with(string_hash(b), diff)]

\* A sleep branch that leaves the flag set after sending.
WorkerTick_stays_armed(n) ==
    /\ NodeWaits(n)
    /\ wflag[n]
    /\ \E nonce \in Nonces :
         LET t == worker_try(wblock[n], wdiff[n], nonce)
         IN  /\ wblock' = [wblock EXCEPT ![n] = t.block]
             /\ IF t.found
                THEN /\ Len(results[n]) < ChanBound
                     /\ results' = [results EXCEPT ![n] = Append(@, <<t.block.hash, nonce>>)]
                ELSE UNCHANGED results
    /\ UNCHANGED <<nodeVars, work, wdiff, wflag, wpc>>

\* The sleep branch: one try; tx.send waits while the channel is full.
WorkerTick(n) ==
    /\ NodeWaits(n)
    /\ wflag[n]
    /\ \E nonce \in Nonces :
         LET t == worker_try(wblock[n], wdiff[n], nonce)
         IN  /\ wblock' = [wblock EXCEPT ![n] = t.block]
             /\ IF t.found
                THEN /\ Len(results[n]) < ChanBound
                     /\ results' = [results EXCEPT ![n] = Append(@, <<t.block.hash, nonce>>)]
                     /\ wflag' = [wflag EXCEPT ![n] = FALSE]
                ELSE UNCHANGED <<results, wflag>>
    /\ UNCHANGED <<nodeVars, work, wdiff, wpc>>

(***************************************************************************)
(* The network of one node: any peer, any message.                         *)
(***************************************************************************)
\* The blocks of NewBlock messages: Block::new(0, data) as main sends it, and
\* a block of the payload "a" with every other field set.
NewBlockInputs ==
    {Block_new(0, d) : d \in Data}
    \cup {[id |-> MaxBlocks, data |-> d, hash |-> HexBase, prev |-> HexBase, nonce |-> 1] :
            d \in {"a"}}

\* A field of a block as a peer may change it.
Tampered(b, field) ==
    CASE field = "id" -> [b EXCEPT !.id = (@ + 1) % Cardinality(Ids)]
      [] field = "hash" -> [b EXCEPT !.hash = @ + HexBase]
      [] field = "prev" -> [b EXCEPT !.prev = @ + HexBase]
      [] field = "link" -> update_hash([b EXCEPT !.prev = @ + HexBase])
      [] OTHER -> b

\* The blocks a peer's miner makes of the payload d, n of them, the last
\* with the nonce given.
RECURSIVE MinedChain(_, _, _)
MinedChain(d, n, nonce) ==
    IF n = 0 THEN <<>>
    ELSE LET pre == MinedChain(d, n - 1, 0)
             prev == IF pre = <<>> THEN ZeroHash ELSE Last(pre).hash
         IN  Append(pre, update_hash([id |-> n - 1, data |-> d, hash |-> ZeroHash,
                                      prev |-> prev, nonce |-> nonce]))

\* The chains of ChainResponce messages, of each length n:
\*  - a mined chain, sealed or not, with or without a queued block;
\*  - a mined chain whose last block fails the difficulty, sealed;
\*  - a sealed chain with one field of one block changed;
\*  - an unsealed chain with the id of its tail changed;
\*  - an unsealed chain of two blocks or more with the node's own tail as
\*    its tail, with or without a queued block.
PeerQueues(bs) ==
    {<<>>} \cup (IF bs # <<>> /\ Len(bs) < MaxBlocks
                 THEN {<<Block_new(Len(bs), "a")>>} ELSE {})

PeerChainsOfLen(c, n) ==
    LET m == MinedChain("a", n, 0)
        sealed(bs) == [blocks |-> bs, status |-> TRUE, queue |-> <<>>]
        unsealed(bs) == [blocks |-> bs, status |-> FALSE, queue |-> <<>>]
    IN  {[blocks |-> m, status |-> st, queue |-> q] :
            st \in BOOLEAN, q \in PeerQueues(m)}
        \cup {sealed(MinedChain("a", n, 2))}
        \cup {sealed([m EXCEPT ![j] = Tampered(m[j], f)]) :
                j \in 1 .. n, f \in {"id", "hash", "prev"}}
        \cup {unsealed([m EXCEPT ![j] = Tampered(m[j], f)]) :
                j \in {n} \cap {1, 2}, f \in {"id"}}
        \cup {[blocks |-> [m EXCEPT ![j] = Last(c.blocks)], status |-> FALSE, queue |-> q] :
                j \in {n} \cap {k \in 2 .. n : c.blocks # <<>>},
                q \in {<<>>, <<Block_new(n, "a")>>}}

PeerChains(c) == UNION {PeerChainsOfLen(c, n) : n \in 0 .. MaxBlocks}

\* A block as a peer announces it: with its own hash, or (forged) with the
\* hash of the block with the next nonce.
Announced(i, d, p, n, forged) ==
    [id |-> i, data |-> d, prev |-> p, nonce |-> n,
     hash |-> calc_hash([id |-> i, data |-> d, prev |-> p,
                         nonce |-> IF forged THEN (n + 1) % Cardinality(Nonces) ELSE n])]

\* The blocks of MinedBlock messages, told by the tail of the node's chain:
\*  - the tail's id, payload and prev, any nonce, forged or not;
\*  - the tail's id with another payload, or with another prev;
\*  - the id before and the id after the tail's, forged or not.
PeerBlocks(c) ==
    LET ref == IF c.blocks = <<>> THEN Block_new(0, "a") ELSE Last(c.blocks)
    IN  {Announced(ref.id, ref.data, ref.prev, n, f) : n \in Nonces, f \in BOOLEAN}
        \cup {Announced(ref.id, d, ref.prev, 0, FALSE) : d \in Data \ {ref.data}}
        \cup {Announced(ref.id, ref.data, ref.prev + HexBase, 0, FALSE)}
        \cup {Announced(i, ref.data, ref.prev, 0, f) :
                i \in {ref.id - 1, ref.id + 1} \cap Ids, f \in BOOLEAN}

EnvNewBlock(n) ==
    /\ Len(chain[n].blocks) + Len(chain[n].queue) < MaxBlocks
    /\ \E b \in NewBlockInputs : Handle(n, NewBlock(b))
    /\ UNCHANGED <<inbox, history, halt>>

EnvChainRequest(n) ==
    /\ Handle(n, ChainRequest)
    /\ UNCHANGED <<inbox, history, halt>>

EnvChainResponce(n) ==
    /\ \E c \in PeerChains(chain[n]) : Handle(n, ChainResponce(c))
    /\ UNCHANGED <<inbox, history, halt>>

EnvMinedBlock(n) ==
    /\ \E b \in PeerBlocks(chain[n]) : Handle(n, MinedBlock(b))
    /\ UNCHANGED <<inbox, history, halt>>

NodeNonce(n) == Nonce(n) /\ UNCHANGED <<inbox, history, halt>>
NodePromote(n) == Promote(n) /\ UNCHANGED <<inbox, history, halt>>
NodeContinue(n) == Continue(n) /\ UNCHANGED <<inbox, history, halt>>
WorkerGets(n) == WorkerRecv(n) /\ UNCHANGED <<inbox, history, halt>>
WorkerTries(n) == WorkerTick(n) /\ UNCHANGED <<inbox, history, halt>>

Next ==
    \/ EnvNewBlock(Solo)
    \/ EnvChainRequest(Solo)
    \/ EnvChainResponce(Solo)
    \/ EnvMinedBlock(Solo)
    \/ NodeNonce(Solo)
    \/ NodePromote(Solo)
    \/ NodeContinue(Solo)
    \/ WorkerGets(Solo)
    \/ WorkerTries(Solo)

Spec == Init /\ [][Next]_vars

(***************************************************************************)
(* A node that is sent NewBlock messages only, with the payloads admitted  *)
(* and the MinedBlock messages sent kept in order.  The tasks of the       *)
(* runtime are scheduled fairly, and the worker's random search finds a    *)
(* nonce in the end.                                                       *)
(***************************************************************************)
MinedOf(msgs) == SelectSeq(msgs, LAMBDA m : m.type = "MinedBlock")

LiveNewBlock(n) ==
    /\ Len(admitted) < MaxBlocks
    /\ \E block \in NewBlockInputs :
         /\ Handle(n, NewBlock(block))
         /\ admitted' = Append(admitted, block.data)
    /\ UNCHANGED <<inbox, emitted, halt>>

LiveNonce(n) ==
    /\ Nonce(n)
    /\ emitted' = emitted \o [i \in DOMAIN MinedOf(out'[n]) |-> MinedOf(out'[n])[i].block]
    /\ UNCHANGED <<inbox, admitted, halt>>

LivePromote(n) == Promote(n) /\ UNCHANGED <<inbox, history, halt>>
LiveWorkerGets(n) == WorkerRecv(n) /\ UNCHANGED <<inbox, history, halt>>
LiveWorkerTries(n) == WorkerTick(n) /\ UNCHANGED <<inbox, history, halt>>
WorkerFinds(n) == LiveWorkerTries(n) /\ ~wflag'[n]

NextLive ==
    \/ LiveNewBlock(Solo)
    \/ LiveNonce(Solo)
    \/ LivePromote(Solo)
    \/ LiveWorkerGets(Solo)
    \/ LiveWorkerTries(Solo)

SpecLive ==
    /\ Init
    /\ [][NextLive]_vars
    /\ WF_vars(LiveNonce(Solo))
    /\ WF_vars(LivePromote(Solo))
    /\ WF_vars(LiveWorkerGets(Solo))
    /\ WF_vars(WorkerFinds(Solo))

(***************************************************************************)
(* Two nodes of one difficulty behind main: a line read from stdin is sent *)
(* to every node as a NewBlock, and what a node sends on its outbound      *)
(* channel is published and forwarded to the other node.                   *)
(***************************************************************************)
Injected(n) == Len(chain[n].blocks) + Len(chain[n].queue) + Len(SelectSeq(inbox[n], LAMBDA m : m.type = "NewBlock"))

NetNewBlock ==
    /\ \A n \in Nodes : Injected(n) < MaxBlocks
    /\ \E d \in Data :
         inbox' = [n \in Nodes |-> Append(inbox[n], NewBlock(Block_new(0, d)))]
    /\ UNCHANGED <<nodeVars, work, results, workerVars, history, halt>>

NetDeliver(n) ==
    /\ inbox[n] # <<>>
    /\ Handle(n, Head(inbox[n]))
    /\ inbox' = [inbox EXCEPT ![n] = Tail(@)]
    /\ UNCHANGED <<history, halt>>

NetNonce(n) == Nonce(n) /\ UNCHANGED <<inbox, history, halt>>

NetPromote(n) ==
    /\ Promote(n)
    /\ inbox' = [inbox EXCEPT ![Peer(n)] = @ \o out[n]]
    /\ UNCHANGED <<history, halt>>

NetWorkerGets(n) == WorkerRecv(n) /\ UNCHANGED <<inbox, history, halt>>
NetWorkerTries(n) == WorkerTick(n) /\ UNCHANGED <<inbox, history, halt>>

NextNet ==
    \/ NetNewBlock
    \/ \E n \in Nodes : NetDeliver(n)
    \/ \E n \in Nodes : NetNonce(n)
    \/ \E n \in Nodes : NetPromote(n)
    \/ \E n \in Nodes : NetWorkerGets(n)
    \/ \E n \in Nodes : NetWorkerTries(n)

SpecNet == Init /\ [][NextNet]_vars

(***************************************************************************)
(* A node that is cancelled.  Its creator sends it NewBlock and            *)
(* ChainRequest messages, reads its bounded outbound channel when it       *)
(* likes, and broadcasts the cancel signal once.  A send of the loop body  *)
(* on Node.tx waits while that channel is full.  The select of the node    *)
(* takes a ready branch at random, so a branch that is ready again and     *)
(* again is taken in the end.                                              *)
(***************************************************************************)
\* The channel behind Node.tx.
Outbound(n) == inbox[Peer(n)]

StopNewBlock(n) ==
    /\ Len(chain[n].blocks) + Len(chain[n].queue) < MaxBlocks
    /\ \E d \in Data : Handle(n, NewBlock(Block_new(0, d)))
    /\ UNCHANGED <<inbox, history, halt>>

StopChainRequest(n) == Handle(n, ChainRequest) /\ UNCHANGED <<inbox, history, halt>>

StopNonce(n) == Nonce(n) /\ UNCHANGED <<inbox, history, halt>>

\* self.tx.send(..).await of the loop body: one message, when there is room.
StopSend(n) ==
    /\ pc[n] = "promote"
    /\ out[n] # <<>>
    /\ Len(Outbound(n)) < ChanBound
    /\ inbox' = [inbox EXCEPT ![Peer(n)] = Append(@, Head(out[n]))]
    /\ out' = [out EXCEPT ![n] = Tail(@)]
    /\ UNCHANGED <<chain, pc, ev, work, results, workerVars, history, halt>>

StopPromote(n) ==
    /\ out[n] = <<>>
    /\ Promote(n)
    /\ UNCHANGED <<inbox, history, halt>>

StopWorkerGets(n) ==
    /\ ~halt[n].worker
    /\ WorkerRecv(n)
    /\ UNCHANGED <<inbox, history, halt>>

StopWorkerTries(n) ==
    /\ ~halt[n].worker
    /\ WorkerTick(n)
    /\ UNCHANGED <<inbox, history, halt>>

\* The creator reads one message from the outbound channel.
StopDrain(n) ==
    /\ Outbound(n) # <<>>
    /\ inbox' = [inbox EXCEPT ![Peer(n)] = Tail(@)]
    /\ UNCHANGED <<nodeVars, work, results, workerVars, history, halt>>

\* The creator's tx_cancel.send(()).
Broadcast(n) ==
    /\ ~halt[n].rx_cancel
    /\ halt' = [halt EXCEPT ![n].rx_cancel = TRUE]
    /\ UNCHANGED <<nodeVars, work, results, workerVars, inbox, history>>

\* _ = self.rx_cancel.recv(): cancel the worker and return.
NodeCancel(n) ==
    /\ pc[n] = "select"
    /\ halt[n].rx_cancel
    /\ pc' = [pc EXCEPT ![n] = "returned"]
    /\ halt' = [halt EXCEPT ![n].cancel_rx = TRUE]
    /\ UNCHANGED <<chain, ev, out, work, results, workerVars, inbox, history>>

\* _ = cancel_rx.recv() in nonce_worker: return.
WorkerCancel(n) ==
    /\ halt[n].cancel_rx
    /\ ~halt[n].worker
    /\ halt' = [halt EXCEPT ![n].worker = TRUE]
    /\ UNCHANGED <<nodeVars, work, results, workerVars, inbox, history>>

NextStop ==
    \/ StopNewBlock(Solo)
    \/ StopChainRequest(Solo)
    \/ StopNonce(Solo)
    \/ StopSend(Solo)
    \/ StopPromote(Solo)
    \/ StopWorkerGets(Solo)
    \/ StopWorkerTries(Solo)
    \/ StopDrain(Solo)
    \/ Broadcast(Solo)
    \/ NodeCancel(Solo)
    \/ WorkerCancel(Solo)

SpecStop ==
    /\ Init
    /\ [][NextStop]_vars
    /\ WF_vars(StopSend(Solo))
    /\ WF_vars(StopPromote(Solo))
    /\ WF_vars(StopNonce(Solo))
    /\ WF_vars(StopWorkerGets(Solo))
    /\ WF_vars(StopWorkerTries(Solo))
    /\ SF_vars(NodeCancel(Solo))
    /\ WF_vars(WorkerCancel(Solo))

(***************************************************************************)
(* A node made by Node::new with a chain of the creator's choice, which    *)
(* may hold blocks and queued blocks, and sent NewBlock and MinedBlock     *)
(* messages.                                                               *)
(***************************************************************************)
GivenChains ==
    {[blocks |-> MinedChain("a", n, 0), status |-> TRUE, queue |-> q] :
        n \in 0 .. 1, q \in {<<>>, <<Block_new(0, "b")>>}}

InitGiven ==
    /\ chain \in [Nodes -> GivenChains]
    /\ chain[Peer(Solo)] = Chain_new
    /\ pc = [n \in Nodes |-> "select"]
    /\ ev = [n \in Nodes |-> NoEvent]
    /\ out = [n \in Nodes |-> <<>>]
    /\ work = [n \in Nodes |-> <<>>]
    /\ results = [n \in Nodes |-> <<>>]
    /\ wflag = [n \in Nodes |-> FALSE]
    /\ wblock = [n \in Nodes |-> Block_new(0, "Dummy")]
    /\ wdiff = [n \in Nodes |-> Zzzz]
    /\ wpc = [n \in Nodes |-> "select"]
    /\ inbox = [n \in Nodes |-> <<>>]
    /\ emitted = <<>>
    /\ admitted = <<>>
    /\ halt = [n \in Nodes |-> [rx_cancel |-> FALSE, cancel_rx |-> FALSE, worker |-> FALSE]]

NextGiven ==
    \/ EnvNewBlock(Solo)
    \/ EnvMinedBlock(Solo)
    \/ NodeNonce(Solo)
    \/ NodePromote(Solo)
    \/ NodeContinue(Solo)
    \/ WorkerGets(Solo)
    \/ WorkerTries(Solo)

SpecGiven == InitGiven /\ [][NextGiven]_vars

(***************************************************************************)
(* What the claims speak of.                                               *)
(***************************************************************************)
Waiting(n) == pc[n] = "select"
Blocks(n) == chain[n].blocks
MinedOut(n) == {i \in DOMAIN out[n] : out[n][i].type = "MinedBlock"}
MeetsDifficulty(b) == ends_with(string_hash(b), Difficult)
\* The node takes a message of the type in this step.
Takes(n, type) == pc[n] = "select" /\ ev[n].type = "none" /\ ev'[n].type = type

\* C1: for a node started with an empty chain, at every point where the loop
\* waits for its next event have_errors() is None, and every ChainResponce
\* the node sends carries a chain with no errors.
C1_NoErrorsWhileWaiting ==
    /\ Waiting(Solo) => have_errors(chain[Solo]) = None
    /\ \A i \in DOMAIN out[Solo] :
         out[Solo][i].type = "ChainResponce" => have_errors(out[Solo][i].chain) = None

\* C2: every MinedBlock the node sends has hash == calc_hash(), a hash that
\* ends with the difficulty suffix, the index of the chain's tail as its id,
\* and the hash of the block before it (zero at id 0) as its prev.
C2_MinedBlockSent ==
    \A i \in MinedOut(Solo) :
        LET b == out[Solo][i].block
        IN  /\ b.hash = calc_hash(b)
            /\ MeetsDifficulty(b)
            /\ b.id = Len(Blocks(Solo)) - 1
            /\ b.prev = IF b.id = 0 THEN ZeroHash ELSE Blocks(Solo)[b.id].hash

\* C3: a MinedBlock whose hash is not its calc_hash(), or whose hash does not
\* end with the difficulty suffix, leaves blocks, queue and status unchanged.
C3_InvalidMinedBlockDiscarded ==
    [][(Takes(Solo, "MinedBlock")
          /\ (~validate_hash(ev'[Solo].block) \/ ~MeetsDifficulty(ev'[Solo].block)))
        => chain'[Solo] = chain[Solo]]_vars

\* C4: whenever status is true and blocks is non-empty while the loop waits,
\* the tail has hash == calc_hash() and a hash that ends with the difficulty
\* suffix.
C4_SealedTailHasProofOfWork ==
    (Waiting(Solo) /\ chain[Solo].status /\ Blocks(Solo) # <<>>)
        => /\ validate_hash(Last(Blocks(Solo)))
           /\ MeetsDifficulty(Last(Blocks(Solo)))

\* The chain a ChainResponce taken in this step would have to beat.
Adoptable(n) ==
    /\ have_errors(ev'[n].chain) = None
    /\ Len(ev'[n].chain.blocks) > Len(chain[n].blocks)

\* C5: a ChainResponce whose chain has no errors and strictly more blocks
\* than the local chain replaces the local chain wholesale: right after the
\* handler blocks, status and queue are the peer's.
C5_LongerValidChainAdopted ==
    [][(Takes(Solo, "ChainResponce") /\ Adoptable(Solo))
        => chain'[Solo] = ev'[Solo].chain]_vars

C5_Witness ==
    /\ pc[Solo] = "promote" /\ ev[Solo].type = "ChainResponce"
    /\ have_errors(ev[Solo].chain) = None
    /\ ev[Solo].chain.blocks # <<>>
    /\ ev[Solo].chain.queue # <<>> /\ ~ev[Solo].chain.status
    /\ chain[Solo] = ev[Solo].chain

\* C6: a ChainResponce whose chain has errors, or not strictly more blocks
\* than the local chain, leaves the local chain unchanged and sends nothing.
C6_OtherChainIgnored ==
    [][(Takes(Solo, "ChainResponce") /\ ~Adoptable(Solo))
        => chain'[Solo] = chain[Solo] /\ out'[Solo] = <<>>]_vars

C6_Witness ==
    /\ pc[Solo] = "promote" /\ ev[Solo].type = "ChainResponce"
    /\ have_errors(ev[Solo].chain) # None
    /\ Len(ev[Solo].chain.blocks) > Len(Blocks(Solo))
    /\ Blocks(Solo) # <<>> /\ out[Solo] = <<>>

\* A MinedBlock taken in this step is valid and names the tail's slot.
ValidForTail(n) ==
    /\ Takes(n, "MinedBlock")
    /\ validate_hash(ev'[n].block) /\ MeetsDifficulty(ev'[n].block)
    /\ chain[n].blocks # <<>>
    /\ ev'[n].block.id = Last(chain[n].blocks).id
    /\ preequals(ev'[n].block, Last(chain[n].blocks))

\* C7: with status true, a valid MinedBlock for the tail's slot that
\* preequals the tail gives the tail its hash and nonce iff its hash is
\* smaller than the tail's, leaves the tail unchanged otherwise, and in both
\* cases status stays true and the tail's id, data and prev do not change.
C7_TieBreak ==
    [][(ValidForTail(Solo) /\ chain[Solo].status)
        => LET b == ev'[Solo].block
               tail == Last(chain[Solo].blocks)
           IN  /\ chain'[Solo].status
               /\ Len(chain'[Solo].blocks) = Len(chain[Solo].blocks)
               /\ Last(chain'[Solo].blocks) =
                    IF hash_lt(b.hash, tail.hash)
                    THEN [tail EXCEPT !.hash = b.hash, !.nonce = b.nonce]
                    ELSE tail]_vars

\* C8: with status false, a valid MinedBlock for the tail's slot that
\* preequals the tail gives the tail its hash and nonce and sets status; the
\* node sends no MinedBlock of its own for the slot, and the next promotion
\* sends the new head of the queue to the worker.
C8_PeerSealsCandidate ==
    [][/\ (ValidForTail(Solo) /\ ~chain[Solo].status)
          => LET b == ev'[Solo].block
                 tail == Last(chain[Solo].blocks)
             IN  /\ chain'[Solo].status
                 /\ Len(chain'[Solo].blocks) = Len(chain[Solo].blocks)
                 /\ Last(chain'[Solo].blocks) = [tail EXCEPT !.hash = b.hash, !.nonce = b.nonce]
                 /\ MinedOut(Solo)' = {}
       /\ (Takes(Solo, "Nonce") /\ chain[Solo].status)
          => chain'[Solo] = chain[Solo] /\ out'[Solo] = <<>>
       /\ (pc[Solo] = "promote" /\ pc'[Solo] = "select"
             /\ chain[Solo].status /\ chain[Solo].queue # <<>>)
          => /\ ~chain'[Solo].status
             /\ chain'[Solo].queue = Tail(chain[Solo].queue)
             /\ Last(chain'[Solo].blocks).data = Head(chain[Solo].queue).data
             /\ work'[Solo] = Append(work[Solo], <<Last(chain'[Solo].blocks), Difficult>>)]_vars

\* The k-th MinedBlock sent is the block of the k-th payload admitted.
InAdmissionOrder ==
    /\ Len(emitted) <= Len(admitted)
    /\ \A k \in DOMAIN emitted :
         /\ emitted[k].id = k - 1
         /\ emitted[k].data = admitted[k]
         /\ emitted[k].prev = IF k = 1 THEN ZeroHash ELSE emitted[k - 1].hash

Quiescent ==
    \A n \in Nodes :
        /\ pc[n] = "select" /\ inbox[n] = <<>>
        /\ work[n] = <<>> /\ results[n] = <<>> /\ ~wflag[n]
        /\ chain[n].status /\ chain[n].queue = <<>>

\* C10: two nodes of one difficulty, each sent every NewBlock and every
\* message the other sends, hold the same sequence of blocks once all
\* messages and mining results have been processed.
C10_NodesConverge ==
    Quiescent => \A n \in Nodes : Blocks(n) = Blocks(Solo)

\* A MinedBlock taken in this step passes the gate and meets a chain with
\* blocks: the chain as the tail handling leaves it.
AfterTailHandling(n) == resolve_tail(chain[n], ev'[n].block)
ResolvesTail(n) ==
    /\ Takes(n, "MinedBlock")
    /\ ~gate_rejects(ev'[n].block, Difficult)
    /\ chain[n].blocks # <<>>
Sent(n, type) == \E i \in DOMAIN out[n] : out[n][i].type = type

\* C11: in handling a MinedBlock, if have_errors() returns index i after the
\* tail handling, then after the handler blocks has length i, the blocks
\* removed stand at the front of the queue in their chain order before the
\* blocks queued earlier, a ChainRequest has been sent, status is true and
\* have_errors() is None.
C11_ChainRepair ==
    [][(ResolvesTail(Solo) /\ have_errors(AfterTailHandling(Solo)) # None)
        => LET c2 == AfterTailHandling(Solo)
               i == have_errors(c2)[1]
           IN  /\ Len(chain'[Solo].blocks) = i
               /\ chain'[Solo].blocks = SubSeq(c2.blocks, 1, i)
               /\ chain'[Solo].queue = SubSeq(c2.blocks, i + 1, Len(c2.blocks)) \o c2.queue
               /\ Sent(Solo, "ChainRequest")'
               /\ chain'[Solo].status
               /\ have_errors(chain'[Solo]) = None]_vars

\* The worker's result taken in this step is the hash of the tail with the
\* nonce of the result.
MatchesTail(n) ==
    /\ chain[n].blocks # <<>>
    /\ ev'[n].hash = calc_hash([Last(chain[n].blocks) EXCEPT !.nonce = ev'[n].nonce])

\* C12: a worker result taken while status is false whose hash is the hash
\* recomputed from the tail with its nonce sets the tail's hash and nonce,
\* sets status, and sends exactly one MinedBlock, equal to the new tail.
C12_WorkerResultCommit ==
    [][(Takes(Solo, "Nonce") /\ ~chain[Solo].status /\ MatchesTail(Solo))
        => /\ chain'[Solo] =
                [chain[Solo] EXCEPT
                    !.blocks = Append(Front(@),
                                      [Last(@) EXCEPT !.hash = ev'[Solo].hash,
                                                      !.nonce = ev'[Solo].nonce]),
                    !.status = TRUE]
           /\ out'[Solo] = <<MinedBlock(Last(chain'[Solo].blocks))>>]_vars

C12_Witness ==
    /\ pc[Solo] = "promote" /\ ev[Solo].type = "Nonce"
    /\ chain[Solo].status /\ Len(Blocks(Solo)) = MaxBlocks
    /\ Last(Blocks(Solo)).hash = ev[Solo].hash
    /\ Last(Blocks(Solo)).nonce = ev[Solo].nonce
    /\ out[Solo] = <<MinedBlock(Last(Blocks(Solo)))>>

\* C13: a worker result taken while status is true, or while status is false
\* with a hash other than the one recomputed from the tail with its nonce,
\* leaves blocks, queue and status unchanged and sends no MinedBlock.
C13_WorkerResultDropped ==
    [][(Takes(Solo, "Nonce")
          /\ (chain[Solo].status
                \/ (chain[Solo].blocks # <<>> /\ ~MatchesTail(Solo))))
        => chain'[Solo] = chain[Solo] /\ MinedOut(Solo)' = {}]_vars

C13_Witness ==
    /\ pc[Solo] = "promote" /\ ev[Solo].type = "Nonce"
    /\ ~chain[Solo].status /\ Blocks(Solo) # <<>>
    /\ ev[Solo].hash # calc_hash([Last(Blocks(Solo)) EXCEPT !.nonce = ev[Solo].nonce])
    /\ out[Solo] = <<>>

\* The worker sends a result in this step; it receives a work item in this
\* step.
WorkerEmits(n) == Len(results'[n]) > Len(results[n])
WorkerReceives(n) == work[n] # <<>> /\ work'[n] = Tail(work[n])

\* C14: every (hash, nonce) the worker sends, applied to the block of the
\* work item it received last, gives a block whose hash is its calc_hash()
\* and ends, in hex, with the suffix of that work item.
C14_WorkerContract ==
    [][WorkerEmits(Solo)
        => LET r == Last(results'[Solo])
               b == [wblock[Solo] EXCEPT !.hash = r[1], !.nonce = r[2]]
           IN  /\ validate_hash(b)
               /\ ends_with(string_hash(b), wdiff[Solo])]_vars

C14_Witness ==
    /\ results[Solo] # <<>> /\ ~wflag[Solo]
    /\ wblock[Solo].id = MaxBlocks - 1
    /\ wblock[Solo].prev # ZeroHash
    /\ Last(results[Solo]) = <<wblock[Solo].hash, wblock[Solo].nonce>>

\* C15: the worker sends nothing before its first work item, sends at most
\* one result for a work item received (it sends only with its flag set,
\* clears the flag as it sends, and only a work item received sets it), and
\* works from the moment it receives a work item on the block and suffix of
\* that item only.
C15_WorkerOverwrite ==
    /\ ~wflag[Solo] /\ results[Solo] = <<>>
    /\ [][/\ WorkerEmits(Solo)
               => /\ wflag[Solo] /\ ~wflag'[Solo]
                  /\ Last(results'[Solo])[1] =
                       calc_hash([wblock[Solo] EXCEPT !.nonce = Last(results'[Solo])[2]])
                  /\ ends_with(HexDigits(Last(results'[Solo])[1], HexPerByte * HashLen),
                               wdiff[Solo])
          /\ (wflag'[Solo] /\ ~wflag[Solo]) => WorkerReceives(Solo)
          /\ WorkerReceives(Solo)
               => /\ wflag'[Solo]
                  /\ wblock'[Solo] = Head(work[Solo])[1]
                  /\ wdiff'[Solo] = Head(work[Solo])[2]
          /\ ~WorkerReceives(Solo)
               => /\ preequals(wblock'[Solo], wblock[Solo])
                  /\ wdiff'[Solo] = wdiff[Solo]]_vars

C15_Witness ==
    /\ wflag[Solo] /\ results[Solo] # <<>>
    /\ Last(results[Solo])[1] # calc_hash([wblock[Solo] EXCEPT !.nonce = Last(results[Solo])[2]])

\* C16: once the cancel signal has been broadcast to the node, the node
\* sends a cancel to its worker and returns from run(), and the worker
\* returns, whatever messages, work items or results are pending, a full
\* outbound channel included.
C16_CancelStopsBoth ==
    halt[Solo].rx_cancel ~> (pc[Solo] = "returned" /\ halt[Solo].worker)

\* C17: a MinedBlock that passes the gate while blocks is empty makes the
\* node send a ChainRequest; blocks stays empty and the queue is unchanged.
C17_OrphanBlock ==
    [][(Takes(Solo, "MinedBlock")
          /\ ~gate_rejects(ev'[Solo].block, Difficult)
          /\ chain[Solo].blocks = <<>>)
        => /\ chain'[Solo].blocks = <<>>
           /\ chain'[Solo].queue = chain[Solo].queue
           /\ out'[Solo] = <<ChainRequest>>]_vars

C17_Witness ==
    /\ pc[Solo] = "promote" /\ ev[Solo].type = "MinedBlock"
    /\ validate_hash(ev[Solo].block) /\ MeetsDifficulty(ev[Solo].block)
    /\ Blocks(Solo) = <<>> /\ chain[Solo].queue = <<>>
    /\ out[Solo] = <<ChainRequest>>

\* C18: a MinedBlock that passes the gate with an id above the tail's makes
\* the node send a ChainRequest and leaves blocks, queue and status
\* unchanged; a MinedBlock with an id below the tail's changes nothing and
\* sends nothing.
C18_BehindOrAhead ==
    [][(Takes(Solo, "MinedBlock") /\ chain[Solo].blocks # <<>>)
        => LET b == ev'[Solo].block
               tail == Last(chain[Solo].blocks)
           IN  /\ (~gate_rejects(b, Difficult) /\ b.id > tail.id)
                    => /\ chain'[Solo] = chain[Solo]
                       /\ Sent(Solo, "ChainRequest")'
               /\ b.id < tail.id
                    => chain'[Solo] = chain[Solo] /\ out'[Solo] = <<>>]_vars

\* C19: a MinedBlock with an id above the tail's that passes validation
\* replaces the last block of the chain.
C19_HigherIdReplacesTail ==
    [][(Takes(Solo, "MinedBlock") /\ chain[Solo].blocks # <<>>
          /\ validate_hash(ev'[Solo].block) /\ MeetsDifficulty(ev'[Solo].block)
          /\ ev'[Solo].block.id > Last(chain[Solo].blocks).id)
        => /\ chain'[Solo].blocks # <<>>
           /\ Last(chain'[Solo].blocks) = ev'[Solo].block]_vars

\* The loop body ends in this step: the node is back at its select.
BodyEnds(n) == pc[n] \in {"promote", "continue"} /\ pc'[n] = "select"

\* C20: for any chain given to Node::new, after any message (a MinedBlock
\* rejected by the gate included) or worker result has been handled with
\* status true and a non-empty queue, the head of the queue is the tail
\* before the next event is taken, with its index as id and the hash of the
\* tail before it as prev, status is false, and one work item (the new tail,
\* the difficulty) has been sent to the worker.
C20_PromotionAfterEveryEvent ==
    [][(BodyEnds(Solo) /\ chain[Solo].status /\ chain[Solo].queue # <<>>)
        => LET c == chain[Solo]
               tail == [Head(c.queue) EXCEPT
                          !.id = Len(c.blocks),
                          !.prev = IF c.blocks = <<>> THEN ZeroHash
                                   ELSE Last(c.blocks).hash]
           IN  /\ chain'[Solo] = [blocks |-> Append(c.blocks, tail),
                                  status |-> FALSE,
                                  queue |-> Tail(c.queue)]
               /\ work'[Solo] = Append(work[Solo], <<tail, Difficult>>)]_vars

\* The outcome of resolving a MinedBlock against the chain: ChainRequest on
\* an empty chain, else tail handling, behind check and repair.
Resolution(c, b) ==
    IF c.blocks = <<>> THEN [chain |-> c, out |-> <<ChainRequest>>]
    ELSE LET c2 == resolve_tail(c, b)
             r == repair(c2)
         IN  [chain |-> r.chain,
              out |-> (IF b.id > Last(c.blocks).id THEN <<ChainRequest>> ELSE <<>>) \o r.out]

\* C21: a MinedBlock is rejected exactly when its hash is not its
\* calc_hash() and its hex hash ends with the difficulty suffix; a rejected
\* block changes no chain state and sends nothing, and every other
\* MinedBlock is resolved against the tail.
C21_GateAsSpecified ==
    [][Takes(Solo, "MinedBlock")
        => LET b == ev'[Solo].block
           IN  IF b.hash # calc_hash(b) /\ MeetsDifficulty(b)
               THEN /\ pc'[Solo] = "continue"
                    /\ chain'[Solo] = chain[Solo]
                    /\ out'[Solo] = <<>>
               ELSE /\ pc'[Solo] = "promote"
                    /\ chain'[Solo] = Resolution(chain[Solo], b).chain
                    /\ out'[Solo] = Resolution(chain[Solo], b).out]_vars

C21_Witness ==
    /\ pc[Solo] = "continue" /\ ev[Solo].type = "MinedBlock"
    /\ ~validate_hash(ev[Solo].block) /\ MeetsDifficulty(ev[Solo].block)
    /\ Blocks(Solo) # <<>> /\ preequals(ev[Solo].block, Last(Blocks(Solo)))
    /\ ~chain[Solo].status /\ out[Solo] = <<>>

(***************************************************************************)
(* The methods of Chain and Block called on their own, as tests/chain.rs   *)
(* and tests/block.rs call them: chain[Solo] is the Chain and wblock[Solo] *)
(* the Block the calls are made on, and ev[Solo] is the call in progress   *)
(* with the value it returned.                                             *)
(***************************************************************************)
MaxLen == 3

Fields == {"id", "hash", "prev", "link"}

\* Mined blocks with up to two fields changed afterwards (tests/chain.rs
\* sets nonce, id and prev of blocks of a chain it built).
TestBlockSeqs(n) ==
    IF n = 0 THEN {<<>>}
    ELSE LET m == MinedChain("a", n, 0)
         IN  {[[m EXCEPT ![j1] = Tampered(@, f1)] EXCEPT ![j2] = Tampered(@, f2)] :
                 <<j1, j2>> \in (1 .. n) \X (1 .. n),
                 <<f1, f2>> \in (Fields \cup {"none"}) \X (Fields \cup {"none"})}

\* A block as it may arrive in a NewBlock message, every field filled.
Filled == [id |-> 2, data |-> "b", hash |-> HexBase, prev |-> HexBase, nonce |-> 1]

TestQueues == {<<>>, <<Filled>>, <<Block_new(0, "a"), Filled>>}

TestChains ==
    {[blocks |-> bs, status |-> st, queue |-> q] :
        bs \in UNION {TestBlockSeqs(n) : n \in 0 .. MaxLen},
        st \in BOOLEAN, q \in TestQueues}

TestHashes(b) == {ZeroHash, calc_hash(b), calc_hash(b) + HexBase}

TestBlocks ==
    UNION {{[id |-> i, data |-> d, hash |-> h, prev |-> p, nonce |-> k] :
                h \in TestHashes([id |-> i, data |-> d, hash |-> ZeroHash,
                                  prev |-> p, nonce |-> k])} :
            <<i, d>> \in Ids \X Data, <<p, k>> \in {ZeroHash, HexBase} \X Nonces}

InitUnit ==
    /\ \/ /\ chain \in [Nodes -> TestChains]
          /\ chain[Peer(Solo)] = Chain_new
          /\ wblock = [n \in Nodes |-> Block_new(0, "Dummy")]
       \/ /\ chain = [n \in Nodes |-> Chain_new]
          /\ wblock \in [Nodes -> TestBlocks \cup {Block_new(0, "Dummy")}]
          /\ wblock[Peer(Solo)] = Block_new(0, "Dummy")
    /\ pc = [n \in Nodes |-> "select"]
    /\ ev = [n \in Nodes |-> NoEvent]
    /\ out = [n \in Nodes |-> <<>>]
    /\ work = [n \in Nodes |-> <<>>]
    /\ results = [n \in Nodes |-> <<>>]
    /\ wflag = [n \in Nodes |-> FALSE]
    /\ wdiff = [n \in Nodes |-> Zzzz]
    /\ wpc = [n \in Nodes |-> "select"]
    /\ inbox = [n \in Nodes |-> <<>>]
    /\ halt = [n \in Nodes |-> [rx_cancel |-> FALSE, cancel_rx |-> FALSE, worker |-> FALSE]]
    /\ emitted = <<>>
    /\ admitted = <<>>

unitFrame == <<pc, out, work, results, wflag, wdiff, wpc, inbox, emitted, admitted, halt>>

\* chain.try_add()
UnitTryAdd ==
    /\ ev[Solo] = NoEvent
    /\ Len(chain[Solo].blocks) < MaxLen
    /\ chain' = [chain EXCEPT ![Solo] = try_add(@).chain]
    /\ ev' = [ev EXCEPT ![Solo] = [type |-> "try_add", ret |-> try_add(chain[Solo]).ret]]
    /\ UNCHANGED <<wblock, unitFrame>>

\* chain.add_queue(block)
UnitAddQueue ==
    /\ ev[Solo] = NoEvent
    /\ Len(chain[Solo].blocks) + Len(chain[Solo].queue) < MaxLen
    /\ \E block \in {Block_new(0, "a"), Filled} :
          /\ chain' = [chain EXCEPT ![Solo] = add_queue(@, block)]
          /\ ev' = [ev EXCEPT ![Solo] = [type |-> "add_queue", block |-> block]]
    /\ UNCHANGED <<wblock, unitFrame>>

\* chain.have_errors()
UnitHaveErrors ==
    /\ ev[Solo] = NoEvent
    /\ ev' = [ev EXCEPT ![Solo] = [type |-> "have_errors", ret |-> have_errors(chain[Solo])]]
    /\ UNCHANGED <<chain, wblock, unitFrame>>

\* block.update_hash()
UnitUpdateHash ==
    /\ ev[Solo] = NoEvent
    /\ wblock' = [wblock EXCEPT ![Solo] = update_hash(@)]
    /\ ev' = [ev EXCEPT ![Solo] = [type |-> "update_hash"]]
    /\ UNCHANGED <<chain, unitFrame>>

\* block.id = v, block.data = v, block.prev = v or block.nonce = v
UnitSetField ==
    /\ ev[Solo] = NoEvent
    /\ wblock[Solo].data \in Data
    /\ \/ \E v \in Ids : wblock' = [wblock EXCEPT ![Solo].id = v]
       \/ \E v \in Data : wblock' = [wblock EXCEPT ![Solo].data = v]
       \/ \E v \in {ZeroHash, HexBase} : wblock' = [wblock EXCEPT ![Solo].prev = v]
       \/ \E v \in Nonces : wblock' = [wblock EXCEPT ![Solo].nonce = v]
    /\ ev' = [ev EXCEPT ![Solo] = [type |-> "set"]]
    /\ UNCHANGED <<chain, unitFrame>>

\* The call has returned; the next statement of the caller follows.
UnitReturn ==
    /\ ev[Solo] # NoEvent
    /\ ev' = [ev EXCEPT ![Solo] = NoEvent]
    /\ UNCHANGED <<chain, wblock, unitFrame>>

NextUnit ==
    \/ UnitTryAdd
    \/ UnitAddQueue
    \/ UnitHaveErrors
    \/ UnitUpdateHash
    \/ UnitSetField
    \/ UnitReturn

SpecUnit == InitUnit /\ [][NextUnit]_vars

\* C22: try_add on a chain with status true and a non-empty queue removes
\* the head of the queue and appends it to blocks with id the previous
\* number of blocks and prev the previous tail's hash (zero on an empty
\* chain), changes nothing else of the block or the chain and returns true;
\* otherwise it returns false and changes nothing; status never changes.
C22_TryAdd ==
    [][Takes(Solo, "try_add")
        => LET c == chain[Solo]
               c2 == chain'[Solo]
               n == Len(c.blocks)
           IN  /\ c2.status = c.status
               /\ IF c.status /\ c.queue # <<>>
                  THEN /\ ev'[Solo].ret = TRUE
                       /\ c2.queue = Tail(c.queue)
                       /\ Len(c2.blocks) = n + 1
                       /\ SubSeq(c2.blocks, 1, n) = c.blocks
                       /\ c2.blocks[n + 1] =
                            [id |-> n,
                             data |-> Head(c.queue).data,
                             hash |-> Head(c.queue).hash,
                             prev |-> IF n = 0 THEN ZeroHash ELSE c.blocks[n].hash,
                             nonce |-> Head(c.queue).nonce]
                  ELSE /\ ev'[Solo].ret = FALSE
                       /\ c2 = c]_vars

C22_Witness ==
    /\ ev[Solo].type = "try_add" /\ ev[Solo].ret = TRUE
    /\ Len(Blocks(Solo)) = 2 /\ chain[Solo].queue # <<>>
    /\ Last(Blocks(Solo)).id = 1
    /\ Last(Blocks(Solo)).prev = Blocks(Solo)[1].hash
    /\ Last(Blocks(Solo)).hash = HexBase

\* C23: add_queue(block) sets the block's id to the number of blocks plus
\* the number of queued blocks before the call and appends it at the back
\* of the queue, so that try_add takes the blocks in the order they were
\* admitted; blocks, status and the entries already queued do not change.
C23_AddQueue ==
    [][/\ Takes(Solo, "add_queue")
          => LET c == chain[Solo]
                 c2 == chain'[Solo]
                 block == ev'[Solo].block
             IN  /\ c2.blocks = c.blocks
                 /\ c2.status = c.status
                 /\ Len(c2.queue) = Len(c.queue) + 1
                 /\ SubSeq(c2.queue, 1, Len(c.queue)) = c.queue
                 /\ c2.queue[Len(c2.queue)] =
                      [id |-> Len(c.blocks) + Len(c.queue), data |-> block.data,
                       hash |-> block.hash, prev |-> block.prev, nonce |-> block.nonce]
       /\ (Takes(Solo, "try_add") /\ ev'[Solo].ret /\ Len(chain[Solo].queue) > 1)
          => /\ Last(chain'[Solo].blocks).data = Head(chain[Solo].queue).data
             /\ Head(chain'[Solo].queue) = chain[Solo].queue[2]]_vars

C23_Witness ==
    /\ ev[Solo].type = "add_queue" /\ ev[Solo].block = Block_new(0, "a")
    /\ Len(Blocks(Solo)) = 1 /\ Len(chain[Solo].queue) = 2
    /\ Head(chain[Solo].queue) = Filled
    /\ Last(chain[Solo].queue) = Block_new(2, "a")

\* The block at index i of the chain c (blocks.get(i)) fails a check of
\* have_errors: its id is not i, its hash is not calc_hash(), or, for
\* i > 0, its prev is not the hash of the block before it.
Offends(c, i) ==
    \/ c.blocks[i + 1].id # i
    \/ c.blocks[i + 1].hash # calc_hash(c.blocks[i + 1])
    \/ i > 0 /\ c.blocks[i + 1].prev # c.blocks[i].hash

\* The indices have_errors is to look at: every block when status is
\* true, every block but the last when it is false.
Checked(c) ==
    IF c.status THEN 0 .. Len(c.blocks) - 1 ELSE 0 .. Len(c.blocks) - 2

\* C24: have_errors() is None exactly when every checked block has id equal
\* to its index, a hash that validates and, past index 0, prev equal to the
\* hash of the block before it; the checked blocks are all of them when
\* status is true and all but the last when it is false; an empty chain
\* gives None.
C24_HaveErrorsNone ==
    [][Takes(Solo, "have_errors")
        => /\ ev'[Solo].ret = None
                <=> \A i \in Checked(chain[Solo]) : ~Offends(chain[Solo], i)
           /\ Blocks(Solo) = <<>> => ev'[Solo].ret = None]_vars

C24_Witness ==
    /\ ev[Solo].type = "have_errors" /\ ev[Solo].ret = None
    /\ Len(Blocks(Solo)) = MaxLen /\ ~chain[Solo].status
    /\ Offends(chain[Solo], MaxLen - 1)
    /\ Last(Blocks(Solo)).id # MaxLen - 1

\* C25: when a chain has errors, have_errors() returns the lowest checked
\* index at which a block has a wrong id, an invalid hash or a prev that is
\* not the hash of the block before it.
C25_LowestOffendingIndex ==
    [][Takes(Solo, "have_errors") /\ ev'[Solo].ret # None
        => /\ ev'[Solo].ret[1] \in Checked(chain[Solo])
           /\ Offends(chain[Solo], ev'[Solo].ret[1])
           /\ \A i \in Checked(chain[Solo]) :
                 Offends(chain[Solo], i) => ev'[Solo].ret[1] <= i]_vars

\* C29: update_hash() makes validate_hash() true and a second call changes
\* nothing; calc_hash() is a function of id, data, prev and nonce alone;
\* with a collision-free hash, changing any of these four fields after
\* update_hash() makes validate_hash() false.
C29_UpdateHash ==
    [][/\ Takes(Solo, "update_hash")
          => LET b == wblock[Solo]
                 b2 == wblock'[Solo]
             IN  /\ validate_hash(b2)
                 /\ <<b2.id, b2.data, b2.prev, b2.nonce>> = <<b.id, b.data, b.prev, b.nonce>>
                 /\ validate_hash(b) => b2 = b
                 /\ \A h \in TestHashes(b) \cup {b.hash} :
                       calc_hash([b2 EXCEPT !.hash = h]) = b2.hash
       /\ (Takes(Solo, "set") /\ validate_hash(wblock[Solo]) /\ wblock'[Solo] # wblock[Solo])
          => ~validate_hash(wblock'[Solo])]_vars

C29_Witness ==
    /\ ev[Solo].type = "set"
    /\ ~validate_hash(wblock[Solo])
    /\ \E k \in Nonces \ {wblock[Solo].nonce} :
          wblock[Solo].hash = calc_hash([wblock[Solo] EXCEPT !.nonce = k])

\* C26: on ChainRequest the node sends exactly one ChainResponce, whose
\* chain equals its current chain, an unsealed tail included, and its own
\* blocks, queue and status do not change.
C26_ChainRequestServed ==
    [][Takes(Solo, "ChainRequest")
        => /\ Len(out'[Solo]) = 1
           /\ out'[Solo][1].type = "ChainResponce"
           /\ out'[Solo][1].chain = chain[Solo]
           /\ chain'[Solo] = chain[Solo]]_vars

C26_Witness ==
    /\ pc[Solo] = "promote" /\ ev[Solo].type = "ChainRequest"
    /\ Blocks(Solo) # <<>> /\ ~chain[Solo].status /\ chain[Solo].queue # <<>>
    /\ Len(out[Solo]) = 1 /\ out[Solo][1].type = "ChainResponce"
    /\ out[Solo][1].chain = chain[Solo]

\* C27: of a NewBlock(b) only b.data is kept: the entry added to the queue
\* is what the payload alone determines (id from the chain, every other
\* field as Block::new leaves it), whatever hash, prev, nonce and id the
\* message carried.
C27_OnlyDataKept ==
    [][Takes(Solo, "NewBlock")
        => Last(chain'[Solo].queue) =
              Block_new(Len(chain[Solo].blocks) + Len(chain[Solo].queue),
                        ev'[Solo].block.data)]_vars

\* The blocks of the chain c below its last one are those of the chain c2,
\* field by field.
SupersededKept(c, c2) ==
    \A i \in 1 .. Len(c.blocks) - 1 :
        i <= Len(c2.blocks) /\ c2.blocks[i] = c.blocks[i]

\* C28: handling NewBlock, ChainRequest or a worker result, and the
\* tail-resolution part of handling MinedBlock, change no field of a block
\* at an index below len(blocks) - 1.
C28_SupersededImmutable ==
    [][/\ (Takes(Solo, "NewBlock") \/ Takes(Solo, "ChainRequest") \/ Takes(Solo, "Nonce"))
          => SupersededKept(chain[Solo], chain'[Solo])
       /\ ResolvesTail(Solo)
          => /\ SupersededKept(chain[Solo], AfterTailHandling(Solo))
             /\ Len(AfterTailHandling(Solo).blocks) = Len(chain[Solo].blocks)
             /\ have_errors(AfterTailHandling(Solo)) = None
                   => SupersededKept(chain[Solo], chain'[Solo])]_vars

C28_Witness ==
    /\ pc[Solo] = "promote" /\ ev[Solo].type = "MinedBlock"
    /\ ~gate_rejects(ev[Solo].block, Difficult)
    /\ Len(Blocks(Solo)) = MaxBlocks /\ chain[Solo].status
    /\ Last(Blocks(Solo)).hash = ev[Solo].block.hash
    /\ preequals(ev[Solo].block, Last(Blocks(Solo)))
    /\ validate_hash(Blocks(Solo)[1])
    /\ Blocks(Solo)[1].hash # ev[Solo].block.hash

\* The block of the work item the node sent last: the newest one still in
\* the channel, else the one the worker holds (its dummy block when none
\* was ever sent; the worker's tries write hash and nonce only).
LastSent(n) == IF work[n] # <<>> THEN Last(work[n])[1] ELSE wblock[n]

\* C30: whenever status is false while the node waits at select, the work
\* item sent last has the id, data and prev of the current tail, also after
\* a ChainResponce has been adopted.
C30_WorkerMinesTail ==
    (Waiting(Solo) /\ ~chain[Solo].status)
        => /\ Blocks(Solo) # <<>>
           /\ LastSent(Solo).id = Last(Blocks(Solo)).id
           /\ LastSent(Solo).data = Last(Blocks(Solo)).data
           /\ LastSent(Solo).prev = Last(Blocks(Solo)).prev

\* C31: for a node started with an empty chain, whenever the loop waits
\* for its next event, status true implies an empty queue: no payload
\* waits behind a sealed tail.
C31_NoQueueBehindSealedTail ==
    (Waiting(Solo) /\ chain[Solo].status) => chain[Solo].queue = <<>>

C31_Witness ==
    /\ Waiting(Solo) /\ chain[Solo].status /\ chain[Solo].queue = <<>>
    /\ Len(Blocks(Solo)) = MaxBlocks
    /\ Last(Blocks(Solo)).data = "b"
    /\ \A i \in 1 .. MaxBlocks :
          validate_hash(Blocks(Solo)[i]) /\ MeetsDifficulty(Blocks(Solo)[i])

\* The payloads of blocks followed by the payloads of queue.
PayloadsOf(seq) == [i \in 1 .. Len(seq) |-> seq[i].data]
Payloads(c) == PayloadsOf(c.blocks) \o PayloadsOf(c.queue)

\* The step takes a ChainResponce and replaces the chain with the peer's.
Adopts(n) == Takes(n, "ChainResponce") /\ chain'[n] = ev'[n].chain /\ chain'[n] # chain[n]

\* C32: but for the adoption of a ChainResponce, the payloads of blocks
\* followed by those of queue change only by a handled NewBlock appending
\* its payload at the end; promotion, sealing by the worker or a peer,
\* tie-break and repair lose, duplicate and reorder nothing.
C32_PayloadConservation ==
    [][~Adopts(Solo)
        => IF Takes(Solo, "NewBlock")
           THEN Payloads(chain'[Solo]) = Append(Payloads(chain[Solo]), ev'[Solo].block.data)
           ELSE Payloads(chain'[Solo]) = Payloads(chain[Solo])]_vars

C32_Witness ==
    /\ pc[Solo] = "promote" /\ ev[Solo].type = "MinedBlock"
    /\ Sent(Solo, "ChainRequest")
    /\ Len(Blocks(Solo)) = 1 /\ Len(chain[Solo].queue) = 1
    /\ Payloads(chain[Solo]) = <<"a", "b">>
    /\ chain[Solo].queue[1].hash # ZeroHash

(***************************************************************************)
(* A node that adopts no peer chain: the ChainResponce messages it gets    *)
(* are those its handler turns down.                                       *)
(***************************************************************************)
OwnChainResponce(n) ==
    /\ \E c \in PeerChains(chain[n]) :
          /\ on_ChainResponce(chain[n], c).chain = chain[n]
          /\ Handle(n, ChainResponce(c))
    /\ UNCHANGED <<inbox, history, halt>>

\* NewBlock, with room for a queue of two behind a candidate.
OwnNewBlock(n) ==
    /\ Len(chain[n].blocks) + Len(chain[n].queue) < MaxLen
    /\ \E b \in NewBlockInputs : Handle(n, NewBlock(b))
    /\ UNCHANGED <<inbox, history, halt>>

NextOwn ==
    \/ OwnNewBlock(Solo)
    \/ EnvChainRequest(Solo)
    \/ OwnChainResponce(Solo)
    \/ EnvMinedBlock(Solo)
    \/ NodeNonce(Solo)
    \/ NodePromote(Solo)
    \/ NodeContinue(Solo)
    \/ WorkerGets(Solo)
    \/ WorkerTries(Solo)

SpecOwn == Init /\ [][NextOwn]_vars

\* C33: for a node started with an empty chain that never adopts a peer
\* chain, whenever the loop waits for its next event the k-th queued block
\* (k from 0) has id len(blocks) + k, also after promotions and after a
\* repair has pushed blocks back to the front of the queue.
C33_StablePreIndex ==
    Waiting(Solo)
        => \A k \in 0 .. Len(chain[Solo].queue) - 1 :
              chain[Solo].queue[k + 1].id = Len(Blocks(Solo)) + k

C33_Witness ==
    /\ Waiting(Solo) /\ ~chain[Solo].status
    /\ Len(Blocks(Solo)) = 1 /\ Len(chain[Solo].queue) = 2
    /\ chain[Solo].queue[2].id = 2
    /\ Last(Blocks(Solo)).data = "b"
    /\ Last(Blocks(Solo)).hash # ZeroHash /\ ~validate_hash(Last(Blocks(Solo)))

\* C34: whenever status is false, blocks is not empty, so the unwrap of
\* blocks.last() in the worker-result branch and in the promotion step
\* never panics, for a node started with an empty chain and any inbound
\* messages and worker results.
C34_NoPanic ==
    /\ ~chain[Solo].status => Blocks(Solo) # <<>>
    /\ pc[Solo] # "panic"

C34_Witness ==
    /\ pc[Solo] = "promote" /\ ev[Solo].type = "MinedBlock"
    /\ Sent(Solo, "ChainRequest")
    /\ ~chain[Solo].status
    /\ Len(Blocks(Solo)) = 1 /\ Len(chain[Solo].queue) >= 2
    /\ chain[Solo].queue[1].hash # ZeroHash

(***************************************************************************)
(* The node and its worker with the worker's tx.send as a step of its own: *)
(* a try that finds a nonce leaves the worker inside tx.send, where it     *)
(* stays, taking no work item, until the result channel has room.          *)
(***************************************************************************)
\* The sleep branch up to tx.send: one try with the nonce drawn.
WorkerTry(n) ==
    /\ NodeWaits(n)
    /\ wpc[n] = "select"
    /\ wflag[n]
    /\ \E nonce \in Nonces :
         LET t == worker_try(wblock[n], wdiff[n], nonce)
         IN  /\ wblock' = [wblock EXCEPT ![n] = t.block]
             /\ wpc' = [wpc EXCEPT ![n] = IF t.found THEN "send" ELSE "select"]
    /\ UNCHANGED <<nodeVars, work, results, wflag, wdiff, inbox, history, halt>>

\* tx.send((block.hash, nonce)).await returns, then flag = false.
WorkerSend(n) ==
    /\ NodeWaits(n)
    /\ wpc[n] = "send"
    /\ Len(results[n]) < ChanBound
    /\ results' = [results EXCEPT ![n] = Append(@, <<wblock[n].hash, wblock[n].nonce>>)]
    /\ wflag' = [wflag EXCEPT ![n] = FALSE]
    /\ wpc' = [wpc EXCEPT ![n] = "select"]
    /\ UNCHANGED <<nodeVars, work, wblock, wdiff, inbox, history, halt>>

NextChan ==
    \/ EnvNewBlock(Solo)
    \/ EnvMinedBlock(Solo)
    \/ NodeNonce(Solo)
    \/ NodePromote(Solo)
    \/ NodeContinue(Solo)
    \/ WorkerGets(Solo)
    \/ WorkerTry(Solo)
    \/ WorkerSend(Solo)

SpecChan == Init /\ [][NextChan]_vars

\* The node is inside tx_node.send of the promotion step and the work
\* channel is full.
NodeBlocked(n) ==
    /\ pc[n] = "promote"
    /\ Len(work[n]) + Len(promotion(chain[n], Difficult).work) > ChanBound

\* The worker is inside tx.send and the result channel is full.
WorkerBlocked(n) == wpc[n] = "send" /\ Len(results[n]) >= ChanBound

\* C35: the node and its worker never deadlock on their two bounded
\* channels: in no reachable state is the node blocked sending a work item
\* on the full work channel while the worker is blocked sending a result on
\* the full result channel.
C35_NoChannelDeadlock == ~(NodeBlocked(Solo) /\ WorkerBlocked(Solo))

====
